---- MODULE Spec2Model ----
(***************************************************************************)
(* Todo API over BigQuery: the datastore client's startup                  *)
(* (src/app/database.py), the five request handlers of src/main.py and the *)
(* table they share.  A handler is a coroutine: it runs on the event loop  *)
(* until it awaits run_bigquery_query, the query is executed on the worker *)
(* pool, and the handler resumes with the query's result or exception.     *)
(* One action is one such step: a handler's code up to its next await, or  *)
(* a query running (atomically: one BigQuery DML or SELECT job) followed   *)
(* by the code that resumes on its result, up to the next await or the     *)
(* return.  Nothing of a handler is visible to the others between its      *)
(* query finishing and its resuming, except the clock, which the resumed   *)
(* code reads at the time the query finished.                              *)
(***************************************************************************)
EXTENDS Integers, Sequences, FiniteSets, TLC

\* ------------------------------------------------------------------ bounds
MaxIds == 2        \* ids the model lets uuid4 generate
MaxClock == 2      \* the wall clock runs 0..MaxClock
MaxSlots == 2      \* requests in flight at the same time
MaxFaults == 1     \* datastore calls the environment lets fail
MaxRequests == 4   \* requests the service receives

\* ------------------------------------------------------------------ values
None == "None"

\* app/schemas.py TaskStatus
TaskStatus == {"pending", "in_progress", "completed"}

\* Field(default=TaskStatus.PENDING)
DefaultStatus == "pending"

Ids == 1..MaxIds

\* A request body of POST /tasks/ as validated into TaskCreate: an omitted
\* description is None, an omitted status takes the default.
TaskCreate(title, description, status) ==
    [title |-> title,
     description |-> description,
     status |-> IF status = None THEN DefaultStatus ELSE status]

\* The create payloads tried: the optional fields omitted, and both supplied.
CreateBodies == {TaskCreate("a", None, None), TaskCreate("a", "d", "in_progress")}

\* TaskUpdate: every field Optional, None when not supplied.  The update
\* payloads tried: every subset of the three fields, each with a value no
\* create payload has.
UpdateBodies ==
    [title : {None, "b"}, description : {None, "e"}, status : {None, "completed"}]

\* ------------------------------------------------------------------ time
\* A Python datetime: an instant and whether it carries a tzinfo.
\* datetime.now(timezone.utc).replace(tzinfo=None): the UTC wall time, naive.
UtcNowNaive(c) == [t |-> c, tz |-> "naive"]

\* ScalarQueryParameter(name, "TIMESTAMP", value): a naive datetime is sent as
\* UTC; the TIMESTAMP column stores the instant.
TimestampParam(dt) == dt.t

\* A TIMESTAMP column read back through query_job.result(): the driver hands
\* out an aware datetime in UTC.
TimestampColumn(t) == [t |-> t, tz |-> "UTC"]

NoTime == [t |-> -1, tz |-> "none"]

\* ------------------------------------------------------------------ table
\* The table has no uniqueness constraint: it is a sequence of rows.
InsertRow(tbl, row) == Append(tbl, row)

SelectWhereId(tbl, id) == SelectSeq(tbl, LAMBDA r : r.id = id)

\* UPDATE ... SET <fields> WHERE id = @task_id; params are the bound values.
SetRow(row, params) ==
    [f \in DOMAIN row |-> IF f \in DOMAIN params THEN params[f] ELSE row[f]]

\* UpdateWhereId gone wrong: a row is inserted when none matches (an upsert).
UpdateWhereIdUpsert(tbl, id, params) ==
    IF SelectSeq(tbl, LAMBDA r : r.id = id) = <<>>
    THEN Append(tbl, SetRow([id |-> id, title |-> None, description |-> None,
                             status |-> None, created_at |-> -1,
                             updated_at |-> -1], params))
    ELSE [i \in DOMAIN tbl |->
            IF tbl[i].id = id THEN SetRow(tbl[i], params) ELSE tbl[i]]

UpdateWhereId(tbl, id, params) ==
    [i \in DOMAIN tbl |-> IF tbl[i].id = id THEN SetRow(tbl[i], params) ELSE tbl[i]]

\* DeleteWhereId gone wrong: the WHERE condition inverted.
DeleteWhereIdInverted(tbl, id) == SelectSeq(tbl, LAMBDA r : r.id = id)

DeleteWhereId(tbl, id) == SelectSeq(tbl, LAMBDA r : r.id # id)

\* A result row as the driver returns it.
ResultRow(row) ==
    [id |-> row.id, title |-> row.title, description |-> row.description,
     status |-> row.status,
     created_at |-> TimestampColumn(row.created_at),
     updated_at |-> TimestampColumn(row.updated_at)]

row_to_task(row) ==
    [id |-> row.id, title |-> row.title, description |-> row.description,
     status |-> row.status, created_at |-> row.created_at,
     updated_at |-> row.updated_at]

NoTask ==
    [id |-> 0, title |-> None, description |-> None, status |-> None,
     created_at |-> NoTime, updated_at |-> NoTime]

\* ------------------------------------------------------------------ startup
RequiredVars == {"BIGQUERY_PROJECT_ID", "BIGQUERY_DATASET", "BIGQUERY_TABLE"}

\* The constructor's progress: the calls made on the driver so far, each with
\* whether it succeeded, and how the constructor ended ("running" until it
\* returns or raises).
Importing(env) == [state |-> "running", env |-> env, calls |-> <<>>]

Call(name, ok) == [call |-> name, ok |-> ok]

\* required_vars / missing / raise ValueError
ValidateEnv(b) ==
    IF RequiredVars \ b.env # {} THEN [b EXCEPT !.state = "ValueError"] ELSE b

\* self.client = bigquery.Client(), any exception becomes ConnectionError
ConnectClient(b, ok) ==
    IF b.state # "running" THEN b
    ELSE [b EXCEPT !.calls = Append(@, Call("Client", ok)),
                   !.state = IF ok THEN "running" ELSE "ConnectionError"]

\* create_dataset_if_not_exists gone wrong: the failure is not caught.
create_dataset_raises(b, ok) ==
    IF b.state # "running" THEN b
    ELSE [b EXCEPT !.calls = Append(@, Call("create_dataset", ok)),
                   !.state = IF ok THEN "running" ELSE "Exception"]

\* client.create_dataset inside try/except Exception: a failure is printed
create_dataset_if_not_exists(b, ok) ==
    IF b.state # "running" THEN b
    ELSE [b EXCEPT !.calls = Append(@, Call("create_dataset", ok))]

\* client.create_table inside try/except Exception: a failure is printed
create_table_if_not_exists(b, ok) ==
    IF b.state # "running" THEN b
    ELSE [b EXCEPT !.calls = Append(@, Call("create_table", ok))]

Constructed(b) == IF b.state = "running" THEN [b EXCEPT !.state = "ready"] ELSE b

\* BigQueryClient.__init__ with the outcome of each driver call
BigQueryClientNew(b, connectOk, datasetOk, tableOk) ==
    Constructed(
        create_table_if_not_exists(
            create_dataset_if_not_exists(
                ConnectClient(ValidateEnv(b), connectOk), datasetOk), tableOk))

\* ------------------------------------------------------------------ errors
\* What a datastore call can raise: BadRequest and NotFound are subclasses of
\* GoogleAPICallError; "GoogleAPICallError" stands for every other subclass and
\* "Exception" for anything that is no GoogleAPICallError.
Exceptions == {"BadRequest", "NotFound", "GoogleAPICallError", "Exception"}

\* except chain of create_task
CreateTaskExcept(exc) == IF exc = "BadRequest" THEN 400 ELSE 500

\* except chain of list_tasks
ListTasksExcept(exc) == IF exc = "BadRequest" THEN 400 ELSE 500

\* GetTaskExcept gone wrong: no clause for NotFound.
GetTaskExceptNoNotFound(exc) == IF exc = "BadRequest" THEN 400 ELSE 500

\* except chain of get_task
GetTaskExcept(exc) ==
    IF exc = "NotFound" THEN 404
    ELSE IF exc = "BadRequest" THEN 400
    ELSE 500

\* except chain of update_task
UpdateTaskExcept(exc) ==
    IF exc = "NotFound" THEN 404
    ELSE IF exc = "BadRequest" THEN 400
    ELSE 500

\* except chain of delete_task
DeleteTaskExcept(exc) ==
    IF exc = "NotFound" THEN 404
    ELSE IF exc = "BadRequest" THEN 400
    ELSE 500

\* ------------------------------------------------------------------ handlers
\* Uuid4 gone wrong: the same id every time.
Uuid4Fixed(generated) == 1

\* uuid.uuid4(): an id no earlier call returned (generated counts the calls).
Uuid4(generated) == generated + 1

\* The Task create_task returns: built from the request, not read back.
CreatedTask(task_id, task, current_time) ==
    [id |-> task_id, title |-> task.title, description |-> task.description,
     status |-> task.status, created_at |-> current_time,
     updated_at |-> current_time]

\* The row the INSERT's bound parameters make.
CreatedRow(task_id, task, current_time) ==
    [id |-> task_id, title |-> task.title, description |-> task.description,
     status |-> task.status, created_at |-> TimestampParam(current_time),
     updated_at |-> TimestampParam(current_time)]

\* GetTaskResult gone wrong: no check for an empty result.
GetTaskResultNoCheck(tbl, task_id, exc) ==
    LET results == SelectWhereId(tbl, task_id) IN
    IF exc # "none"
    THEN [status |-> GetTaskExcept(exc), result |-> NoTask, err |-> exc,
          found |-> "n/a"]
    ELSE IF results = <<>>
    THEN [status |-> 200, result |-> NoTask, err |-> "none", found |-> "no"]
    ELSE [status |-> 200, result |-> row_to_task(ResultRow(results[1])),
          err |-> "none", found |-> "yes"]

\* get_task from its query's outcome: exc is "none" or the exception raised.
GetTaskResult(tbl, task_id, exc) ==
    LET results == SelectWhereId(tbl, task_id) IN
    IF exc # "none"
    THEN [status |-> GetTaskExcept(exc), result |-> NoTask, err |-> exc,
          found |-> "n/a"]
    ELSE IF results = <<>>
    THEN [status |-> 404, result |-> NoTask, err |-> "none", found |-> "no"]
    ELSE [status |-> 200, result |-> row_to_task(ResultRow(results[1])),
          err |-> "none", found |-> "yes"]

\* UpdateFields gone wrong: updated_at only when a field was supplied.
UpdateFieldsStampIfAny(task_update, now) ==
    LET given == {g \in {"title", "description", "status"} : task_update[g] # None} IN
    [f \in (IF given = {} THEN {} ELSE given \cup {"updated_at"}) |->
        IF f = "updated_at" THEN now ELSE task_update[f]]

\* update_fields: the supplied fields, then always updated_at.
UpdateFields(task_update, now) ==
    [f \in {g \in {"title", "description", "status"} : task_update[g] # None}
           \cup {"updated_at"} |->
        IF f = "updated_at" THEN now ELSE task_update[f]]

\* BindParams gone wrong: the timestamp is bound to the created_at column.
BindParamsWrongColumn(update_fields) ==
    [f \in (DOMAIN update_fields \ {"updated_at"}) \cup {"created_at"} |->
        IF f = "created_at" THEN TimestampParam(update_fields["updated_at"])
        ELSE update_fields[f]]

\* BindParams gone wrong: the naive timestamp is sent as a local time, one
\* hour ahead of UTC.
BindParamsLocalTime(update_fields) ==
    [f \in DOMAIN update_fields |->
        IF f = "updated_at" THEN TimestampParam(update_fields[f]) - 1
        ELSE update_fields[f]]

\* query_parameters of the UPDATE: STRING for the fields, TIMESTAMP for updated_at
BindParams(update_fields) ==
    [f \in DOMAIN update_fields |->
        IF f = "updated_at" THEN TimestampParam(update_fields[f])
        ELSE update_fields[f]]

Get(update_fields, f, default) ==
    IF f \in DOMAIN update_fields THEN update_fields[f] ELSE default

\* The Task update_task returns: merged from existing_task and update_fields.
UpdatedTask(task_id, task_update, update_fields, existing_task) ==
    [id |-> task_id,
     title |-> Get(update_fields, "title", existing_task.title),
     description |-> Get(update_fields, "description", existing_task.description),
     status |-> IF task_update.status # None THEN task_update.status
                ELSE existing_task.status,
     created_at |-> existing_task.created_at,
     updated_at |-> update_fields["updated_at"]]

\* ORDER BY created_at DESC: every order of the rows that is sorted so (ties
\* come in any order).
ListResults(tbl) ==
    LET n == Len(tbl) IN
    {[i \in 1..n |-> tbl[p[i]]] :
        p \in {q \in [1..n -> 1..n] :
                 /\ \A i, j \in 1..n : i # j => q[i] # q[j]
                 /\ \A i, j \in 1..n :
                      i < j => tbl[q[i]].created_at >= tbl[q[j]].created_at}}

\* ------------------------------------------------------------------ state
VARIABLES
    boot,       \* the module-level bigquery_client: BigQueryClient()'s progress
    table,      \* the rows of the tasks table
    clock,      \* datetime.now(timezone.utc)
    generated,  \* how many ids uuid4 has handed out
    slots,      \* the requests in flight: each handler's locals and position
    budget,     \* datastore calls the environment may still fail
    started,    \* requests received so far
    created,    \* history: the ids create_task has returned
    deleted,    \* history: the ids for which delete_task has returned success
    mutated     \* history: the ids an update_task or delete_task was received for

vars == <<boot, table, clock, generated, slots, budget, started, created, deleted, mutated>>

NoBody == [title |-> None, description |-> None, status |-> None]

Idle ==
    [op |-> "idle", pc |-> "idle", task_id |-> 0, body |-> NoBody,
     existing |-> NoTask, now |-> NoTime, issued |-> FALSE, found |-> "n/a",
     matched |-> -1, err |-> "none", status |-> 0, result |-> NoTask,
     tasks |-> <<>>, afterCreate |-> FALSE,
     afterDelete |-> FALSE]

Slots == DOMAIN slots

IsFree(s) == slots[s].op = "idle"

\* A new request takes the first free slot.
FreeSlot(s) == IsFree(s) /\ \A r \in Slots : r < s => ~IsFree(r)

Serving == boot.state = "ready"

\* What the next datastore call raises: "none", or an exception while the
\* environment still has failures to hand out.
Raised == {"none"} \cup (IF budget > 0 THEN Exceptions ELSE {})

Spend(exc) == IF exc = "none" THEN budget ELSE budget - 1

\* The handler ends: its HTTP status and what it returns.
Finish(slot, status, exc) ==
    [slot EXCEPT !.pc = "done", !.status = status, !.err = exc]

\* ------------------------------------------------------------------ actions
\* bigquery_client = BigQueryClient(), at import
BigQueryClientInit ==
    /\ boot.state = "running"
    /\ \E connectOk, datasetOk, tableOk \in BOOLEAN :
         boot' = BigQueryClientNew(boot, connectOk, datasetOk, tableOk)
    /\ UNCHANGED <<table, clock, generated, slots, budget, started, created, deleted, mutated>>

Tick ==
    /\ clock < MaxClock
    /\ clock' = clock + 1
    /\ UNCHANGED <<boot, table, generated, slots, budget, started, created, deleted, mutated>>

\* create_task up to its await: the id, the clock reading, the bound parameters
CreateTask(s, task) ==
    /\ Serving /\ FreeSlot(s)
    /\ started < MaxRequests
    /\ started' = started + 1
    /\ generated < MaxIds
    /\ generated' = generated + 1
    /\ slots' = [slots EXCEPT ![s] =
                   [Idle EXCEPT !.op = "create", !.pc = "insert",
                                !.task_id = Uuid4(generated), !.body = task,
                                !.now = UtcNowNaive(clock)]]
    /\ UNCHANGED <<boot, table, clock, budget, created, deleted, mutated>>

\* the INSERT runs, create_task resumes and returns
CreateTaskInsert(s) ==
    /\ slots[s].op = "create" /\ slots[s].pc = "insert"
    /\ \E exc \in Raised :
         LET slot == slots[s] IN
         /\ budget' = Spend(exc)
         /\ table' = IF exc = "none"
                     THEN InsertRow(table, CreatedRow(slot.task_id, slot.body, slot.now))
                     ELSE table
         /\ created' = IF exc = "none" THEN created \cup {slot.task_id} ELSE created
         /\ slots' = [slots EXCEPT ![s] =
                        IF exc = "none"
                        THEN [Finish(slot, 200, exc) EXCEPT
                                !.result = CreatedTask(slot.task_id, slot.body, slot.now)]
                        ELSE Finish(slot, CreateTaskExcept(exc), exc)]
    /\ UNCHANGED <<boot, clock, generated, started, deleted, mutated>>

\* list_tasks up to its await
ListTasks(s) ==
    /\ Serving /\ FreeSlot(s)
    /\ started < MaxRequests
    /\ started' = started + 1
    /\ slots' = [slots EXCEPT ![s] = [Idle EXCEPT !.op = "list", !.pc = "select"]]
    /\ UNCHANGED <<boot, table, clock, generated, budget, created, deleted, mutated>>

\* the SELECT runs, list_tasks resumes and returns
ListTasksSelect(s) ==
    /\ slots[s].op = "list" /\ slots[s].pc = "select"
    /\ \E exc \in Raised :
         /\ budget' = Spend(exc)
         /\ \E results \in ListResults(table) :
              slots' = [slots EXCEPT ![s] =
                 IF exc = "none"
                 THEN [Finish(@, 200, exc) EXCEPT
                         !.tasks = [i \in DOMAIN results |->
                                      row_to_task(ResultRow(results[i]))]]
                 ELSE Finish(@, ListTasksExcept(exc), exc)]
    /\ UNCHANGED <<boot, table, clock, generated, started, created, deleted, mutated>>

\* get_task up to its await
GetTask(s, task_id) ==
    /\ Serving /\ FreeSlot(s)
    /\ started < MaxRequests
    /\ started' = started + 1
    /\ slots' = [slots EXCEPT ![s] =
                   [Idle EXCEPT !.op = "get", !.pc = "select", !.task_id = task_id,
                                !.afterCreate = (task_id \in created),
                                !.afterDelete = (task_id \in deleted)]]
    /\ UNCHANGED <<boot, table, clock, generated, budget, created, deleted, mutated>>

\* the SELECT runs, get_task resumes and returns
GetTaskSelect(s) ==
    /\ slots[s].op = "get" /\ slots[s].pc = "select"
    /\ \E exc \in Raised :
         LET r == GetTaskResult(table, slots[s].task_id, exc) IN
         /\ budget' = Spend(exc)
         /\ slots' = [slots EXCEPT ![s] =
                        [Finish(@, r.status, r.err) EXCEPT
                           !.result = r.result, !.found = r.found]]
    /\ UNCHANGED <<boot, table, clock, generated, started, created, deleted, mutated>>

\* update_task up to the await inside its get_task call
UpdateTask(s, task_id, task_update) ==
    /\ Serving /\ FreeSlot(s)
    /\ started < MaxRequests
    /\ started' = started + 1
    /\ mutated' = mutated \cup {task_id}
    /\ slots' = [slots EXCEPT ![s] =
                   [Idle EXCEPT !.op = "update", !.pc = "select",
                                !.task_id = task_id, !.body = task_update]]
    /\ UNCHANGED <<boot, table, clock, generated, budget, created, deleted>>

\* the existence check's SELECT runs; update_task resumes, and either ends
\* with get_task's HTTPException or reads the clock, builds the UPDATE and
\* awaits it
UpdateTaskSelect(s) ==
    /\ slots[s].op = "update" /\ slots[s].pc = "select"
    /\ \E exc \in Raised :
         LET slot == slots[s]
             r == GetTaskResult(table, slot.task_id, exc)
             now == UtcNowNaive(clock)
             update_fields == UpdateFields(slot.body, now)
         IN
         /\ budget' = Spend(exc)
         /\ slots' = [slots EXCEPT ![s] =
                        IF r.status # 200
                        THEN [Finish(slot, r.status, r.err) EXCEPT !.found = r.found]
                        ELSE IF DOMAIN update_fields = {}
                        THEN [Finish(slot, 200, r.err) EXCEPT
                                !.found = r.found, !.existing = r.result,
                                !.result = r.result]
                        ELSE [slot EXCEPT !.pc = "update", !.found = r.found,
                                          !.existing = r.result, !.now = now,
                                          !.issued = TRUE]]
    /\ UNCHANGED <<boot, table, clock, generated, started, created, deleted, mutated>>

\* the UPDATE runs, update_task resumes and returns
UpdateTaskExec(s) ==
    /\ slots[s].op = "update" /\ slots[s].pc = "update"
    /\ \E exc \in Raised :
         LET slot == slots[s]
             update_fields == UpdateFields(slot.body, slot.now)
         IN
         /\ budget' = Spend(exc)
         /\ table' = IF exc = "none"
                     THEN UpdateWhereId(table, slot.task_id, BindParams(update_fields))
                     ELSE table
         /\ slots' = [slots EXCEPT ![s] =
                        IF exc = "none"
                        THEN [Finish(slot, 200, exc) EXCEPT
                                !.matched = Len(SelectWhereId(table, slot.task_id)),
                                !.result = UpdatedTask(slot.task_id, slot.body,
                                                       update_fields, slot.existing)]
                        ELSE Finish(slot, UpdateTaskExcept(exc), exc)]
    /\ UNCHANGED <<boot, clock, generated, started, created, deleted, mutated>>

\* delete_task up to the await inside its get_task call
DeleteTask(s, task_id) ==
    /\ Serving /\ FreeSlot(s)
    /\ started < MaxRequests
    /\ started' = started + 1
    /\ mutated' = mutated \cup {task_id}
    /\ slots' = [slots EXCEPT ![s] =
                   [Idle EXCEPT !.op = "delete", !.pc = "select",
                                !.task_id = task_id]]
    /\ UNCHANGED <<boot, table, clock, generated, budget, created, deleted>>

\* the existence check's SELECT runs; delete_task resumes, and either ends
\* with get_task's HTTPException or builds the DELETE and awaits it
DeleteTaskSelect(s) ==
    /\ slots[s].op = "delete" /\ slots[s].pc = "select"
    /\ \E exc \in Raised :
         LET slot == slots[s]
             r == GetTaskResult(table, slot.task_id, exc)
         IN
         /\ budget' = Spend(exc)
         /\ slots' = [slots EXCEPT ![s] =
                        IF r.status # 200
                        THEN [Finish(slot, r.status, r.err) EXCEPT !.found = r.found]
                        ELSE [slot EXCEPT !.pc = "delete", !.found = r.found,
                                          !.issued = TRUE]]
    /\ UNCHANGED <<boot, table, clock, generated, started, created, deleted, mutated>>

\* the DELETE runs, delete_task resumes and returns
DeleteTaskExec(s) ==
    /\ slots[s].op = "delete" /\ slots[s].pc = "delete"
    /\ \E exc \in Raised :
         LET slot == slots[s] IN
         /\ budget' = Spend(exc)
         /\ table' = IF exc = "none" THEN DeleteWhereId(table, slot.task_id) ELSE table
         /\ deleted' = IF exc = "none" THEN deleted \cup {slot.task_id} ELSE deleted
         /\ slots' = [slots EXCEPT ![s] =
                        IF exc = "none"
                        THEN [Finish(slot, 200, exc) EXCEPT
                                !.matched = Len(SelectWhereId(table, slot.task_id))]
                        ELSE Finish(slot, DeleteTaskExcept(exc), exc)]
    /\ UNCHANGED <<boot, clock, generated, started, created, mutated>>

\* the response has been sent: the request is over
Respond(s) ==
    /\ slots[s].pc = "done"
    /\ slots' = [slots EXCEPT ![s] = Idle]
    /\ UNCHANGED <<boot, table, clock, generated, budget, started, created, deleted, mutated>>

\* ------------------------------------------------------------------ specifications
InitState(b, n, f) ==
    /\ boot = b
    /\ table = <<>>
    /\ clock = 0
    /\ generated = 0
    /\ slots = [s \in 1..n |-> Idle]
    /\ budget = f
    /\ started = 0
    /\ created = {}
    /\ deleted = {}
    /\ mutated = {}

\* The service once bigquery_client is constructed, on a datastore that
\* raises nothing.
Init ==
    InitState(BigQueryClientNew(Importing(RequiredVars), TRUE, TRUE, TRUE),
              MaxSlots, 0)

Next ==
    \/ Tick
    \/ \E s \in Slots, task \in CreateBodies : CreateTask(s, task)
    \/ \E s \in Slots : CreateTaskInsert(s)
    \/ \E s \in Slots : ListTasks(s)
    \/ \E s \in Slots : ListTasksSelect(s)
    \/ \E s \in Slots, task_id \in Ids : GetTask(s, task_id)
    \/ \E s \in Slots : GetTaskSelect(s)
    \/ \E s \in Slots, task_id \in Ids, task_update \in UpdateBodies :
           UpdateTask(s, task_id, task_update)
    \/ \E s \in Slots : UpdateTaskSelect(s)
    \/ \E s \in Slots : UpdateTaskExec(s)
    \/ \E s \in Slots, task_id \in Ids : DeleteTask(s, task_id)
    \/ \E s \in Slots : DeleteTaskSelect(s)
    \/ \E s \in Slots : DeleteTaskExec(s)
    \/ \E s \in Slots : Respond(s)

Spec == Init /\ [][Next]_vars

\* The process from its import on, on a datastore that may fail.
InitBoot == \E env \in SUBSET RequiredVars : InitState(Importing(env), 1, MaxFaults)

NextBoot == BigQueryClientInit \/ Next

SpecBoot == InitBoot /\ [][NextBoot]_vars

\* ------------------------------------------------------------------ properties
Done(s, op) == slots[s].op = op /\ slots[s].pc = "done"

Rows(id) == SelectWhereId(table, id)

\* C1: a get_task that starts after delete_task has returned success for its
\* id, and whose query raises nothing, returns 404.
C1_GetAfterDeleteIs404 ==
    \A s \in Slots :
        (Done(s, "get") /\ slots[s].afterDelete /\ slots[s].err = "none")
            => slots[s].status = 404

\* C1 witness: such a get has returned while an update of the same id, which
\* passed its existence check before the delete, has run its UPDATE after it.
C1_Witness ==
    \E s, u \in Slots :
        /\ Done(s, "get") /\ slots[s].afterDelete /\ slots[s].status = 404
        /\ Done(u, "update") /\ slots[u].task_id = slots[s].task_id
        /\ slots[u].status = 200 /\ slots[u].matched = 0

\* The Task an update is to return, field by field: the supplied value where
\* one was supplied, the value read at the existence check otherwise.
C2_Returned(slot) ==
    /\ slot.result.id = slot.task_id
    /\ slot.result.id = slot.existing.id
    /\ slot.result.title =
         (IF slot.body.title # None THEN slot.body.title ELSE slot.existing.title)
    /\ slot.result.description =
         (IF slot.body.description # None THEN slot.body.description
          ELSE slot.existing.description)
    /\ slot.result.status =
         (IF slot.body.status # None THEN slot.body.status ELSE slot.existing.status)
    /\ slot.result.created_at = slot.existing.created_at
    /\ slot.result.updated_at = slot.now
    /\ slot.now.t >= slot.existing.updated_at.t

\* The stored row after an update, field by field, from the row before it.
C2_Stored(slot, before, after) ==
    /\ after.id = before.id
    /\ after.title = (IF slot.body.title # None THEN slot.body.title ELSE before.title)
    /\ after.description =
         (IF slot.body.description # None THEN slot.body.description
          ELSE before.description)
    /\ after.status =
         (IF slot.body.status # None THEN slot.body.status ELSE before.status)
    /\ after.created_at = before.created_at
    /\ after.updated_at = slot.now.t
    /\ after.updated_at >= before.updated_at

\* C2: an update_task that returns 200 has executed its UPDATE, whatever
\* subset of the fields was supplied, and returns the supplied values over
\* the values of its existence check with updated_at its own clock reading,
\* no earlier than the prior one; and when the row is still the one the
\* existence check read (nothing else wrote it meanwhile), the UPDATE leaves
\* the row with the supplied values, the prior values elsewhere and that
\* clock reading as updated_at.
C2_UpdateMerges ==
    /\ [](\A s \in Slots :
            (Done(s, "update") /\ slots[s].status = 200)
                => /\ slots[s].issued
                   /\ slots[s].matched >= 0
                   /\ C2_Returned(slots[s]))
    /\ [][\A s \in Slots :
            ( /\ slots[s].op = "update" /\ slots[s].pc = "update"
              /\ slots'[s].pc = "done" /\ slots'[s].status = 200
              /\ Len(Rows(slots[s].task_id)) = 1
              /\ row_to_task(ResultRow(Rows(slots[s].task_id)[1])) = slots[s].existing )
            => /\ Len(SelectWhereId(table', slots[s].task_id)) = 1
               /\ C2_Stored(slots[s], Rows(slots[s].task_id)[1],
                            SelectWhereId(table', slots[s].task_id)[1])]_vars

\* C2 witness: an update with no field supplied has returned 200 with a later
\* updated_at, and the row holds it.
C2_Witness ==
    \E s \in Slots :
        /\ Done(s, "update") /\ slots[s].status = 200
        /\ slots[s].body = NoBody
        /\ slots[s].matched = 1
        /\ slots[s].result.updated_at.t > slots[s].existing.updated_at.t
        /\ Len(Rows(slots[s].task_id)) = 1
        /\ Rows(slots[s].task_id)[1].updated_at = slots[s].now.t
        /\ Rows(slots[s].task_id)[1].title = slots[s].existing.title

\* C3: an update_task or delete_task whose existence check found no row ends
\* with 404 without having issued or run its UPDATE or DELETE, and the step
\* that ends it leaves the table as it was.
C3_AbsentIs404 ==
    /\ [](\A s \in Slots :
            ( /\ slots[s].op \in {"update", "delete"}
              /\ slots[s].found = "no" )
            => /\ slots[s].pc = "done"
               /\ slots[s].status = 404
               /\ ~slots[s].issued
               /\ slots[s].matched = -1)
    /\ [][\A s \in Slots :
            ( /\ slots[s].op \in {"update", "delete"}
              /\ slots[s].pc = "select"
              /\ slots'[s].found = "no" )
            => table' = table]_vars

\* C3 witness: a delete and an update have both ended so.
C3_Witness ==
    \E s, u \in Slots :
        /\ Done(s, "delete") /\ slots[s].found = "no" /\ slots[s].status = 404
        /\ Done(u, "update") /\ slots[u].found = "no" /\ slots[u].status = 404

Finished(s) == slots[s].pc = "done" /\ slots[s].op # "idle"

\* C4 as claimed: BadRequest gives 400, every other failure of a datastore
\* call gives 500, and 404 comes only from a select that returned no row.
C4_Claimed ==
    \A s \in Slots :
        Finished(s) =>
            /\ slots[s].err = "BadRequest" => slots[s].status = 400
            /\ slots[s].err \in Exceptions \ {"BadRequest"} => slots[s].status = 500
            /\ slots[s].status = 404 => slots[s].found = "no"

\* C4 amended: BadRequest gives 400; NotFound gives 404 in get_task,
\* update_task and delete_task and 500 in create_task and list_tasks; every
\* other failure gives 500; 404 comes only from a select that returned no row
\* or from a NotFound raised in get_task, update_task or delete_task.
C4_ErrorMapping ==
    \A s \in Slots :
        Finished(s) =>
            LET byId == slots[s].op \in {"get", "update", "delete"} IN
            /\ slots[s].err = "BadRequest" => slots[s].status = 400
            /\ (slots[s].err = "NotFound" /\ byId) => slots[s].status = 404
            /\ (slots[s].err = "NotFound" /\ ~byId) => slots[s].status = 500
            /\ slots[s].err \in {"GoogleAPICallError", "Exception"}
                 => slots[s].status = 500
            /\ slots[s].status = 404
                 => \/ slots[s].found = "no"
                    \/ slots[s].err = "NotFound" /\ byId

\* C4 witness: an update whose UPDATE raised NotFound has ended with 404 though
\* its select had found the row.
C4_Witness ==
    \E s \in Slots :
        /\ Done(s, "update") /\ slots[s].issued /\ slots[s].found = "yes"
        /\ slots[s].err = "NotFound" /\ slots[s].status = 404

\* C5: created_at <= updated_at in every stored row and in every Task that
\* create_task, get_task or update_task returns.
C5_CreatedBeforeUpdated ==
    /\ \A i \in DOMAIN table : table[i].created_at <= table[i].updated_at
    /\ \A s \in Slots :
         ( /\ slots[s].op \in {"create", "get", "update"}
           /\ slots[s].pc = "done" /\ slots[s].status = 200 )
         => slots[s].result.created_at.t <= slots[s].result.updated_at.t

\* C5 witness: an update has returned a Task whose updated_at is later than
\* its created_at, while another update of the same row is in flight.
C5_Witness ==
    \E s, u \in Slots :
        /\ Done(s, "update") /\ slots[s].status = 200 /\ slots[s].matched = 1
        /\ slots[s].result.created_at.t < slots[s].result.updated_at.t
        /\ slots[u].op = "update" /\ slots[u].pc = "update"
        /\ slots[u].task_id = slots[s].task_id

\* C6: the table holds at most one row for any id.
C6_OneRowPerId == \A id \in Ids : Len(Rows(id)) <= 1

\* C6 witness: two creates, an update and a delete have run, and a row is left.
C6_Witness ==
    /\ generated >= 2
    /\ deleted # {}
    /\ \E s \in Slots : Done(s, "update") /\ slots[s].matched = 1
    /\ Len(table) = 1

\* C7 as claimed: with a create_task that has returned a Task and no update or
\* delete of its id received, a get_task of that id started after it returns
\* a Task equal to it in all six fields; created_at = updated_at and the
\* status is that of the payload (pending when omitted) in the create response.
C7_Claimed ==
    \A c, g \in Slots :
        (Done(c, "create") /\ slots[c].status = 200)
        => /\ slots[c].result.created_at = slots[c].result.updated_at
           /\ slots[c].result.status = slots[c].body.status
           /\ ( /\ Done(g, "get") /\ slots[g].err = "none"
                /\ slots[g].afterCreate
                /\ slots[g].task_id = slots[c].result.id
                /\ slots[c].result.id \notin mutated )
              => /\ slots[g].status = 200
                 /\ slots[g].result = slots[c].result

\* C7, what does hold of the round trip: the get returns 200 with the same id,
\* title, description and status and the same two instants; only the tzinfo
\* of created_at and updated_at differs (naive in the create response, UTC in
\* the get response).
C7_EqualUpToTzinfo ==
    \A c, g \in Slots :
        ( /\ Done(c, "create") /\ slots[c].status = 200
          /\ Done(g, "get") /\ slots[g].err = "none"
          /\ slots[g].afterCreate
          /\ slots[g].task_id = slots[c].result.id
          /\ slots[c].result.id \notin mutated )
        => /\ slots[g].status = 200
           /\ slots[g].result.id = slots[c].result.id
           /\ slots[g].result.title = slots[c].result.title
           /\ slots[g].result.description = slots[c].result.description
           /\ slots[g].result.status = slots[c].result.status
           /\ slots[g].result.created_at.t = slots[c].result.created_at.t
           /\ slots[g].result.updated_at.t = slots[c].result.updated_at.t
           /\ slots[c].result.created_at.tz = "naive"
           /\ slots[g].result.created_at.tz = "UTC"

\* C8: the constructor ends in ValueError with no call made when a required
\* setting is missing; otherwise in ConnectionError when Client() failed;
\* otherwise it completes, having called create_dataset and then create_table
\* whether or not either failed.
C8_Startup ==
    boot.state # "running" =>
        IF RequiredVars \ boot.env # {}
        THEN boot.state = "ValueError" /\ boot.calls = <<>>
        ELSE /\ Len(boot.calls) >= 1
             /\ boot.calls[1].call = "Client"
             /\ IF ~boot.calls[1].ok
                THEN boot.state = "ConnectionError" /\ Len(boot.calls) = 1
                ELSE /\ boot.state = "ready"
                     /\ [i \in DOMAIN boot.calls |-> boot.calls[i].call]
                          = <<"Client", "create_dataset", "create_table">>

\* C8 witness: startup has completed though both provisioning calls failed.
C8_Witness ==
    /\ boot.state = "ready"
    /\ Len(boot.calls) = 3
    /\ ~boot.calls[2].ok /\ ~boot.calls[3].ok

\* C9: an update_task whose UPDATE ran without error on no row (the row its
\* existence check had found was deleted meanwhile) returns 200 with the Task
\* merged from what the check read, and the table holds no row for that id.
C9_StaleUpdateSucceeds ==
    \A s \in Slots :
        ( /\ Done(s, "update") /\ slots[s].issued /\ slots[s].err = "none"
          /\ slots[s].matched = 0 )
        => /\ slots[s].status = 200
           /\ slots[s].task_id \in deleted
           /\ slots[s].result.id = slots[s].task_id
           /\ slots[s].result.title =
                (IF slots[s].body.title # None THEN slots[s].body.title
                 ELSE slots[s].existing.title)
           /\ slots[s].result.created_at = slots[s].existing.created_at
           /\ Rows(slots[s].task_id) = <<>>

\* C9 witness: such an update has returned, with fields of its own merged in.
C9_Witness ==
    \E s \in Slots :
        /\ Done(s, "update") /\ slots[s].issued /\ slots[s].err = "none"
        /\ slots[s].matched = 0 /\ slots[s].status = 200
        /\ slots[s].found = "yes"
        /\ slots[s].body.title # None
        /\ slots[s].task_id \in deleted
        /\ Rows(slots[s].task_id) = <<>>

\* C10 as claimed: no step lowers the updated_at of a stored row.
C10_Claimed ==
    [][\A id \in Ids :
         (Rows(id) # <<>> /\ SelectWhereId(table', id) # <<>>)
            => SelectWhereId(table', id)[1].updated_at >= Rows(id)[1].updated_at]_vars

\* C10 amended: an UPDATE writes an updated_at no earlier than the one its own
\* existence check read, so no step lowers the updated_at of a stored row
\* unless it is the UPDATE of a request whose existence check read the row
\* before another update wrote it.
C10_UpdatedAtMonotoneUnlessOverlap ==
    [][\A id \in Ids :
         (Rows(id) # <<>> /\ SelectWhereId(table', id) # <<>>)
            => \/ SelectWhereId(table', id)[1].updated_at >= Rows(id)[1].updated_at
               \/ \E s \in Slots :
                    /\ slots[s].op = "update" /\ slots[s].pc = "update"
                    /\ slots[s].task_id = id
                    /\ slots'[s].pc = "done"
                    /\ slots[s].existing.updated_at.t < Rows(id)[1].updated_at
                    /\ slots[s].now.t >= slots[s].existing.updated_at.t]_vars

\* C10 witness: two updates of one row were in flight together and both have
\* run, the one that read the clock later first.
C10_Witness ==
    \E s, u \in Slots :
        /\ s # u
        /\ Done(s, "update") /\ slots[s].matched = 1
        /\ slots[u].op = "update" /\ slots[u].pc = "update"
        /\ slots[u].task_id = slots[s].task_id
        /\ slots[u].now.t < slots[s].now.t
        /\ Rows(slots[s].task_id) # <<>>
        /\ Rows(slots[s].task_id)[1].updated_at = slots[s].now.t

====
